---- MODULE Spec2Model ----
(***************************************************************************)
(* State-machine model of the oxwm status Bar (src/src/bar/bar.rs), its    *)
(* text capability (src/src/bar/font.rs) and the TabBar                    *)
(* (src/src/tab_bar.rs).                                                   *)
(*                                                                         *)
(* Text is a sequence of glyph names.  Every glyph has a measured width    *)
(* and a UTF-8 byte length, so that str::len and byte slicing can be told  *)
(* apart from character counts.                                            *)
(***************************************************************************)
EXTENDS Integers, Sequences, FiniteSets, TLC

(***************************************************************************)
(* Bounds of the model.                                                    *)
(***************************************************************************)
MaxTags == 2
MaxBlocks == 2
MaxTime == 2
MaxInterval == 2
FontHeight == 5
BarWidth == 80
MaxClickX == 22
MaxTitleLen == 3
MaxTabWidth == 7
MaxWindows == 3

(***************************************************************************)
(* Program constants.                                                      *)
(***************************************************************************)
LayoutGap == 10
KeychordGap == 10
BlocksPadding == 10
TitleGap == 10
TitleJustifyGap == 10
TagUnderlinePadding == 4
BlockUnderlinePadding == 8

\* Option: None is the empty sequence, Some(v) the sequence holding v
None == <<>>

Some(v) == <<v>>

Unwrap(option) == option[1]

TwoPow16 == 2 ^ 16
TwoPow15 == 2 ^ 15

\* `as u16`
AsU16(n) == n % TwoPow16

\* `as i16`
AsI16(n) == ((n + TwoPow15) % TwoPow16) - TwoPow15

\* Rust's integer division truncates toward zero.
TruncDiv(a, b) == IF a >= 0 THEN a \div b ELSE -((-a) \div b)

Bit(mask, tag_index) == (mask \div (2 ^ tag_index)) % 2 = 1

(***************************************************************************)
(* Text capability.                                                        *)
(***************************************************************************)
Glyphs == {"i", "W", "e_acute"}

\* advance width of one glyph as the text engine measures it
GlyphWidth(c) == IF c = "W" THEN 2 ELSE 1

\* UTF-8 length of one glyph: "e_acute" is a two-byte character
GlyphBytes(c) == IF c = "e_acute" THEN 2 ELSE 1

RECURSIVE text_width(_)
text_width(text) ==
    IF text = <<>> THEN 0
    ELSE AsU16(GlyphWidth(Head(text)) + text_width(Tail(text)))

\* str::len: the length in bytes
RECURSIVE StrLen(_)
StrLen(text) ==
    IF text = <<>> THEN 0 ELSE GlyphBytes(Head(text)) + StrLen(Tail(text))

\* str::is_char_boundary, the check behind &title[..n]
IsCharBoundary(text, n) ==
    \E k \in 0..Len(text) : StrLen(SubSeq(text, 1, k)) = n

\* &text[..n] for n a character boundary
SliceTo(text, n) ==
    SubSeq(text, 1, CHOOSE k \in 0..Len(text) : StrLen(SubSeq(text, 1, k)) = n)

horizontal_padding == (FontHeight * 4) \div 10

RECURSIVE Join(_)
Join(parts) == IF parts = <<>> THEN <<>> ELSE Head(parts) \o Join(Tail(parts))


(***************************************************************************)
(* Configuration supplied by the host (crate::Config).                     *)
(***************************************************************************)
LabelShort == <<"i">>
LabelLong == <<"W", "W", "W">>

\* tag lists of every length up to MaxTags, with alternating labels
TagLists ==
    { [p \in 1..n |-> IF (p + k) % 2 = 0 THEN LabelShort ELSE LabelLong] :
        n \in 1..MaxTags, k \in 0..1 }

\* block lists of every length up to MaxBlocks, with rotating intervals and
\* contents of two widths
BlockLists ==
    { [p \in 1..n |->
          [interval |-> ((p + k) % MaxInterval) + 1,
           underline |-> (p % 2 = 1),
           text |-> IF p % 2 = 1 THEN <<"i">> ELSE <<"W">>]] :
        n \in 0..MaxBlocks, k \in 0..(MaxInterval - 1) }

Themes == {"dark", "light"}

\* ColorScheme {foreground, background, underline} of one role in one theme
ColorScheme(theme, role) ==
    [foreground |-> <<theme, role, "fg">>,
     background |-> <<theme, role, "bg">>,
     underline |-> <<theme, role, "ul">>]

\* the bitmask triples <<current, occupied, urgent>> the host passes to draw:
\* one tag is selected; no tag, the first tag or every tag is occupied; no tag
\* or the second tag is urgent
DrawMasks ==
    {<<2 ^ t, o, u>> : t \in 0..(MaxTags - 1), o \in {0, 1, 2 ^ MaxTags - 1},
                       u \in {0, 2}}

LayoutSymbols == {<<"W">>}
ClickXs == -1..MaxClickX

VARIABLES
    \* Bar fields
    tags, tag_widths, needs_redraw, blocks, block_last_updates,
    block_underlines, status_text, scheme_normal, scheme_occupied,
    scheme_selected, scheme_urgent, hide_vacant_tags, last_occupied_tags,
    last_current_tags,
    \* Instant::now()
    now,
    \* the process has panicked
    aborted,
    \* the frame most recently rendered to the visible window
    frame,
    \* what the most recent call did
    last_call,
    \* TabBar fields and the width of its Drawing Surface
    tb_width, tb_x_offset, tb_y_offset, tb_surface_width, tb_call,
    \* position in the title truncation loop of Bar::draw
    t_pc, t_title, t_x_position, t_end_of_blocks_x, t_title_start,
    t_title_width, t_end_of_title

bar_fields ==
    <<tags, tag_widths, needs_redraw, blocks, block_last_updates,
      block_underlines, status_text, scheme_normal, scheme_occupied,
      scheme_selected, scheme_urgent, hide_vacant_tags, last_occupied_tags,
      last_current_tags>>

bar_vars == <<bar_fields, now, aborted, frame, last_call>>

tab_vars == <<tb_width, tb_x_offset, tb_y_offset, tb_surface_width, tb_call>>

title_vars ==
    <<t_pc, t_title, t_x_position, t_end_of_blocks_x, t_title_start,
      t_title_width, t_end_of_title>>

vars == <<bar_vars, tab_vars, title_vars>>

width == BarWidth


(***************************************************************************)
(* Bar::new and Bar::update_from_config.                                   *)
(***************************************************************************)

\* Bar::new: tag_widths[i] = text_width(tag_i) + 2 * horizontal_padding
NewTagWidths(config) ==
    [p \in 1..Len(config.tags) |->
        AsU16(text_width(config.tags[p]) + (horizontal_padding * 2))]

\* block_config.to_block() for every configured status block
ToBlocks(config) ==
    [p \in 1..Len(config.status_blocks) |->
        [interval |-> config.status_blocks[p].interval,
         text |-> config.status_blocks[p].text]]

BlockUnderlines(config) ==
    [p \in 1..Len(config.status_blocks) |-> config.status_blocks[p].underline]

\* timestamps that are not taken from the clock
StaleTimestamps(config) == [p \in 1..Len(config.status_blocks) |-> 0]

\* vec![Instant::now(); blocks.len()]
FreshTimestamps(config) == [p \in 1..Len(config.status_blocks) |-> now]

\* the record of one call: what it returned and what it did to the surface
Call(op, result, fills, texts, blits, fetches, first_ok, events) ==
    [op |-> op, result |-> result,
     fills |-> fills, texts |-> texts, blits |-> blits, fetches |-> fetches,
     first_ok |-> first_ok, events |-> events, masks |-> <<>>]

\* a call of draw that got as far as caching the tag masks it was given
WithMasks(call, current_tags, occupied_tags) ==
    [call EXCEPT !.masks = <<current_tags, occupied_tags>>]

\* One thing a call does, in the order the code does it.  kind: "layout" (a
\* text run is positioned and pushed to bar_objects), "fill" (draw_elements on
\* the offscreen pixmap), "text" (draw_text on the offscreen pixmap), "blit"
\* (draw_elements onto the window), "fetch" (a block's content()).
Event(kind, what, index, x, color, flags) ==
    [kind |-> kind, what |-> what, index |-> index, x |-> x, color |-> color,
     flags |-> flags]

NoFrame == [drawn |-> FALSE, spans |-> <<>>]

\* the configuration a call of update_from_config was given
ConfigEvent(config) == Event("assign", "config", 0, 0, <<>>, <<config>>)

UpdateFromConfig(config) ==
    /\ ~aborted
    /\ blocks' = ToBlocks(config)
    /\ block_underlines' = BlockUnderlines(config)
    /\ block_last_updates' = FreshTimestamps(config)
    /\ tags' = config.tags
    /\ scheme_normal' = ColorScheme(config.theme, "normal")
    /\ scheme_occupied' = ColorScheme(config.theme, "occupied")
    /\ scheme_selected' = ColorScheme(config.theme, "selected")
    /\ scheme_urgent' = ColorScheme(config.theme, "urgent")
    /\ hide_vacant_tags' = config.hide_vacant_tags
    /\ status_text' = <<>>
    /\ needs_redraw' = TRUE
    /\ last_call' = Call("update_from_config", "ok", 0, 0, 0, 0, <<>>,
                         <<ConfigEvent(config)>>)
    /\ UNCHANGED <<tag_widths, last_occupied_tags, last_current_tags>>
    /\ UNCHANGED <<now, aborted, frame, tab_vars, title_vars>>

\* Bar::invalidate
Invalidate ==
    /\ ~aborted
    /\ needs_redraw' = TRUE
    /\ last_call' = Call("invalidate", "ok", 0, 0, 0, 0, <<>>, <<>>)
    /\ UNCHANGED <<tags, tag_widths, blocks, block_last_updates,
                   block_underlines, status_text, scheme_normal,
                   scheme_occupied, scheme_selected, scheme_urgent,
                   hide_vacant_tags, last_occupied_tags, last_current_tags>>
    /\ UNCHANGED <<now, aborted, frame, tab_vars, title_vars>>

(***************************************************************************)
(* Bar::update_blocks.  first_ok[i] and rebuild_ok[i] are what block i's   *)
(* content() returns in the first loop and in the rebuild loop.            *)
(***************************************************************************)

\* an interval test that lets a block through one tick early
IntervalReachedEarly(i) == now - block_last_updates[i] + 1 >= blocks[i].interval

\* elapsed >= block.interval, elapsed = now.duration_since(last update)
IntervalReached(i) == now - block_last_updates[i] >= blocks[i].interval

\* a first loop that forgets to look at the result of content()
BlockChangedIgnoringFetch(i, first_ok) == IntervalReached(i)

\* the condition under which the first loop records a new timestamp
BlockChanged(i, first_ok) == IntervalReached(i) /\ first_ok[i]

\* a rebuild that would join only the blocks that reached their interval
RebuiltStatusTextOfDueBlocks(rebuild_ok) ==
    Join([i \in 1..Len(blocks) |->
            IF IntervalReached(i) /\ rebuild_ok[i] THEN blocks[i].text
            ELSE <<>>])

\* parts.join("") over the blocks whose content() succeeds in the rebuild
RebuiltStatusText(rebuild_ok) ==
    Join([i \in 1..Len(blocks) |->
            IF rebuild_ok[i] THEN blocks[i].text ELSE <<>>])

\* what content() may return in the first loop; it is not called, and has no
\* result, for a block whose interval is not reached
FirstLoopResults ==
    {first_ok \in [1..Len(blocks) -> BOOLEAN] :
        \A i \in 1..Len(blocks) : first_ok[i] => IntervalReached(i)}

\* what content() may return in the rebuild loop; the loop does not run, and
\* the results are not read, when no block changed
RebuildResults(first_ok) ==
    IF \E i \in 1..Len(blocks) : BlockChanged(i, first_ok)
    THEN [1..Len(blocks) -> BOOLEAN]
    ELSE {[i \in 1..Len(blocks) |-> FALSE]}

\* the content() calls of the first loop: one for every block whose interval
\* is reached (the && does not evaluate content() for the others)
FirstLoopFetches(first_ok) ==
    Join([i \in 1..Len(blocks) |->
            IF IntervalReached(i)
            THEN <<Event("fetch", "first_loop", i, 0, <<>>, <<first_ok[i]>>)>>
            ELSE <<>>])

\* the content() calls of the rebuild loop: one for every block
RebuildFetches(rebuild_ok) ==
    [i \in 1..Len(blocks) |->
        Event("fetch", "rebuild", i, 0, <<>>, <<rebuild_ok[i]>>)]

UpdateBlocks(first_ok, rebuild_ok) ==
    LET changed == \E i \in 1..Len(blocks) : BlockChanged(i, first_ok)
        due == {i \in 1..Len(blocks) : IntervalReached(i)}
    IN
    /\ ~aborted
    /\ block_last_updates' =
           [i \in 1..Len(blocks) |->
               IF BlockChanged(i, first_ok) THEN now ELSE block_last_updates[i]]
    /\ IF changed
       THEN /\ status_text' = RebuiltStatusText(rebuild_ok)
            /\ needs_redraw' = TRUE
       ELSE UNCHANGED <<status_text, needs_redraw>>
    /\ last_call' =
           Call("update_blocks", "ok", 0, 0, 0,
                Cardinality(due) + (IF changed THEN Len(blocks) ELSE 0),
                first_ok,
                FirstLoopFetches(first_ok)
                    \o (IF changed THEN RebuildFetches(rebuild_ok) ELSE <<>>))
    /\ UNCHANGED <<tags, tag_widths, blocks, block_underlines, scheme_normal,
                   scheme_occupied, scheme_selected, scheme_urgent,
                   hide_vacant_tags, last_occupied_tags, last_current_tags>>
    /\ UNCHANGED <<now, aborted, frame, tab_vars, title_vars>>

\* time passes between two calls of the host loop
Tick ==
    /\ ~aborted
    /\ now < MaxTime
    /\ now' = now + 1
    /\ last_call' = Call("tick", "ok", 0, 0, 0, 0, <<>>, <<>>)
    /\ UNCHANGED <<bar_fields, aborted, frame, tab_vars, title_vars>>


(***************************************************************************)
(* Bar::draw.  The layout is computed by the operators below; the Draw     *)
(* actions apply it to the state.                                          *)
(***************************************************************************)

\* a choice that lets urgent win over selected
TagSchemeUrgentFirst(is_selected, is_occupied, is_urgent) ==
    IF is_urgent THEN scheme_urgent
    ELSE IF is_selected THEN scheme_selected
    ELSE IF is_occupied THEN scheme_occupied
    ELSE scheme_normal

\* selected > urgent > occupied > normal
TagScheme(is_selected, is_occupied, is_urgent) ==
    IF is_selected THEN scheme_selected
    ELSE IF is_urgent THEN scheme_urgent
    ELSE IF is_occupied THEN scheme_occupied
    ELSE scheme_normal

\* a test that hides vacant tags whatever the policy
TagHiddenIgnoringPolicy(is_occupied, is_selected) ==
    ~is_occupied /\ ~is_selected

\* the test that makes draw and handle_click skip a tag
TagHidden(is_occupied, is_selected) ==
    hide_vacant_tags /\ ~is_occupied /\ ~is_selected

\* The left-to-right pass over self.tags, from tag_index on; spans holds
\* the tags laid out so far.  panic: self.tag_widths[tag_index] is out of
\* bounds.  underflow: tag_width - text_width went below zero in u16, which
\* panics when overflow checks are compiled in and wraps otherwise.
RECURSIVE TagPass(_, _, _, _, _, _, _)
TagPass(tag_index, x_position, current_tags, occupied_tags, urgent_tags, spans, underflow) ==
    IF tag_index >= Len(tags)
    THEN [panic |-> FALSE, underflow |-> underflow,
          x_position |-> x_position, spans |-> spans]
    ELSE
    LET is_selected == Bit(current_tags, tag_index)
        is_occupied == Bit(occupied_tags, tag_index)
        is_urgent == Bit(urgent_tags, tag_index)
    IN
    IF TagHidden(is_occupied, is_selected)
    THEN TagPass(tag_index + 1, x_position, current_tags, occupied_tags,
                 urgent_tags, spans, underflow)
    ELSE IF tag_index >= Len(tag_widths)
    THEN [panic |-> TRUE, underflow |-> underflow,
          x_position |-> x_position, spans |-> spans]
    ELSE
    LET tag_width == tag_widths[tag_index + 1]
        label_width == text_width(tags[tag_index + 1])
        text_x == AsI16(x_position
                        + AsI16(AsU16(tag_width - label_width) \div 2))
    IN
    TagPass(tag_index + 1, AsI16(x_position + AsI16(tag_width)),
            current_tags, occupied_tags, urgent_tags,
            Append(spans,
                   [tag |-> tag_index,
                    start |-> x_position,
                    end |-> x_position + AsI16(tag_width),
                    text_x |-> text_x,
                    scheme |-> TagScheme(is_selected, is_occupied, is_urgent),
                    underline |-> is_selected \/ is_urgent,
                    underflow |-> tag_width < label_width,
                    flags |-> <<is_selected, is_urgent, is_occupied>>]),
            underflow \/ tag_width < label_width)

\* The right-to-left pass over the blocks, from block i down to the first;
\* runs holds the blocks laid out so far, fills counts their underlines.
RECURSIVE BlocksPass(_, _, _, _, _)
BlocksPass(i, x_position, fetch_ok, runs, fills) ==
    IF i = 0 THEN [x_position |-> x_position, runs |-> runs, fills |-> fills]
    ELSE IF fetch_ok[i]
    THEN LET block_width == text_width(blocks[i].text)
             x == AsI16(x_position - AsI16(block_width))
         IN BlocksPass(i - 1, x, fetch_ok,
                       Append(runs, [block |-> i, x |-> x,
                                     text |-> blocks[i].text]),
                       fills + (IF block_underlines[i] THEN 1 ELSE 0))
    ELSE BlocksPass(i - 1, x_position, fetch_ok, runs, fills)

\* where the title starts: centred, or justified after the layout region
TitleStart(x_position, end_of_blocks_x, title) ==
    LET end_of_layout_x == AsI16(x_position + TitleGap)
        middle_remaining == TruncDiv(end_of_blocks_x - end_of_layout_x, 2)
        title_width == AsI16(text_width(title))
        centred == middle_remaining - TruncDiv(title_width, 2)
    IN IF centred < end_of_layout_x
       THEN AsI16(end_of_layout_x + TitleJustifyGap)
       ELSE centred

\* while title_start + title_width > end_of_blocks_x
TitleLoopCond(title_start, title_width, end_of_blocks_x) ==
    title_start + title_width > end_of_blocks_x

\* One iteration of the loop: end_of_title -= 1, then the width of
\* &title[..end_of_title].  It panics when end_of_title is 0 (the usize
\* subtraction overflows, or wraps and the slice is out of range) and when
\* the new end is not a character boundary.
TitleLoopBody(title, end_of_title) ==
    IF end_of_title = 0 \/ ~IsCharBoundary(title, end_of_title - 1)
    THEN [panic |-> TRUE, end_of_title |-> end_of_title, title_width |-> 0]
    ELSE [panic |-> FALSE, end_of_title |-> end_of_title - 1,
          title_width |-> AsI16(text_width(SliceTo(title, end_of_title - 1)))]

RECURSIVE TruncateTitle(_, _, _, _, _)
TruncateTitle(title, title_start, end_of_blocks_x, end_of_title, title_width) ==
    IF TitleLoopCond(title_start, title_width, end_of_blocks_x)
    THEN LET body == TitleLoopBody(title, end_of_title)
         IN IF body.panic
            THEN [panic |-> TRUE, end_of_title |-> end_of_title,
                  title_width |-> title_width]
            ELSE TruncateTitle(title, title_start, end_of_blocks_x,
                               body.end_of_title, body.title_width)
    ELSE [panic |-> FALSE, end_of_title |-> end_of_title,
          title_width |-> title_width]

\* what the tag loop does for the tags of spans: it positions each label and
\* fills the underline of a selected or urgent tag at once
TagEvents(spans) ==
    Join([p \in 1..Len(spans) |->
            <<Event("layout", "tag", spans[p].tag, spans[p].text_x,
                    spans[p].scheme.foreground, spans[p].flags)>>
            \o (IF spans[p].underline
                THEN <<Event("fill", "tag_underline", spans[p].tag,
                             AsI16(spans[p].start + TagUnderlinePadding \div 2),
                             spans[p].scheme.underline, spans[p].flags)>>
                ELSE <<>>)])

\* the spans laid out before the first one whose tag_width - text_width
\* overflows
RECURSIVE BeforeUnderflow(_)
BeforeUnderflow(spans) ==
    IF spans = <<>> \/ Head(spans).underflow THEN <<>>
    ELSE <<Head(spans)>> \o BeforeUnderflow(Tail(spans))

\* what the block loop does for the blocks of runs, right to left
BlockEvents(runs) ==
    Join([p \in 1..Len(runs) |->
            <<Event("layout", "block", runs[p].block, runs[p].x,
                    <<"block", runs[p].block>>, <<>>)>>
            \o (IF block_underlines[runs[p].block]
                THEN <<Event("fill", "block_underline", runs[p].block,
                             AsI16(runs[p].x - BlockUnderlinePadding \div 2),
                             <<"block", runs[p].block>>, <<>>)>>
                ELSE <<>>)])

\* the layout symbol and the keychord indicator, pushed to bar_objects
SymbolEvents(symbol_x, x_position, keychord_indicator) ==
    <<Event("layout", "symbol", 0, symbol_x, scheme_normal.foreground, <<>>)>>
    \o (IF keychord_indicator # None
        THEN <<Event("layout", "keychord", 0, x_position,
                     scheme_normal.foreground, Unwrap(keychord_indicator))>>
        ELSE <<>>)

\* the title, pushed to bar_objects after the truncation loop; the flags
\* keep the two boundaries it was placed between, end_of_layout_x and
\* end_of_blocks_x, and the title that was supplied
TitleEvents(focused_title, title_start, end_of_title, x_position, end_of_blocks_x) ==
    IF focused_title = None THEN <<>>
    ELSE <<Event("layout", "title", end_of_title, title_start,
                 scheme_selected.foreground,
                 <<AsI16(x_position + TitleGap), end_of_blocks_x,
                   Unwrap(focused_title)>>)>>

IsLayout(event) == event.kind = "layout"

\* for object in bar_objects: draw_text, in the order the runs were pushed
BatchEvents(pass_events) ==
    LET bar_objects == SelectSeq(pass_events, IsLayout)
    IN [p \in 1..Len(bar_objects) |-> [bar_objects[p] EXCEPT !.kind = "text"]]

\* the first draw_elements of draw: the strip is cleared
ClearEvent == Event("fill", "clear", 0, 0, scheme_normal.background, <<>>)

\* the last draw_elements of draw: the pixmap is copied to the window
BlitEvent == Event("blit", "window", 0, 0, <<>>, <<>>)

\* a pass that copies the pixmap to the window before the text batch
FrameEventsBlitBeforeBatch(pass_events) ==
    <<ClearEvent>> \o pass_events \o <<BlitEvent>> \o BatchEvents(pass_events)

\* a pass that draws the text runs before the layout passes
FrameEventsBatchBeforeLayout(pass_events) ==
    <<ClearEvent>> \o BatchEvents(pass_events) \o pass_events \o <<BlitEvent>>

\* everything a draw that reaches its end does, in the order of the code
FrameEvents(pass_events) ==
    <<ClearEvent>> \o pass_events \o BatchEvents(pass_events) \o <<BlitEvent>>

CountKind(events, kind) ==
    Cardinality({p \in 1..Len(events) : events[p].kind = kind})

\* The whole layout of one rendering draw.
Layout(current_tags, occupied_tags, urgent_tags, draw_blocks, layout_symbol, keychord_indicator, focused_title, fetch_ok) ==
    LET tag_pass == TagPass(0, 0, current_tags, occupied_tags, urgent_tags,
                            <<>>, FALSE)
        symbol_x == AsI16(tag_pass.x_position + LayoutGap)
        after_symbol == AsI16(symbol_x + AsI16(text_width(layout_symbol)))
        x_position == IF keychord_indicator # None
                      THEN AsI16(after_symbol + KeychordGap)
                      ELSE after_symbol
        with_blocks == draw_blocks /\ status_text # <<>>
        blocks_pass ==
            IF with_blocks
            THEN BlocksPass(Len(blocks), AsI16(width) - BlocksPadding,
                            fetch_ok, <<>>, 0)
            ELSE [x_position |-> AsI16(width), runs |-> <<>>, fills |-> 0]
        end_of_blocks_x == blocks_pass.x_position
        title_start ==
            IF focused_title = None THEN 0
            ELSE TitleStart(x_position, end_of_blocks_x, Unwrap(focused_title))
        truncated ==
            IF focused_title = None
            THEN [panic |-> FALSE, end_of_title |-> 0, title_width |-> 0]
            ELSE TruncateTitle(Unwrap(focused_title), title_start,
                               end_of_blocks_x,
                               StrLen(Unwrap(focused_title)),
                               AsI16(text_width(Unwrap(focused_title))))
        underlined == {p \in 1..Len(tag_pass.spans) : tag_pass.spans[p].underline}
    IN
    [tag_panic |-> tag_pass.panic,
     underflow |-> tag_pass.underflow,
     title_panic |-> truncated.panic,
     spans |-> tag_pass.spans,
     tags_end_x |-> tag_pass.x_position,
     symbol_x |-> symbol_x,
     x_position |-> x_position,
     with_blocks |-> with_blocks,
     block_runs |-> blocks_pass.runs,
     end_of_blocks_x |-> end_of_blocks_x,
     title_start |-> title_start,
     end_of_title |-> truncated.end_of_title,
     title_width |-> truncated.title_width,
     fills |-> 1 + Cardinality(underlined) + blocks_pass.fills,
     texts |-> Len(tag_pass.spans) + 1
               + (IF keychord_indicator # None THEN 1 ELSE 0)
               + Len(blocks_pass.runs)
               + (IF focused_title # None THEN 1 ELSE 0),
     fetches |-> IF with_blocks THEN Len(blocks) ELSE 0,
     underflow_events |-> TagEvents(BeforeUnderflow(tag_pass.spans)),
     tag_events |-> TagEvents(tag_pass.spans),
     pretitle_events |->
         TagEvents(tag_pass.spans)
         \o SymbolEvents(symbol_x, x_position, keychord_indicator)
         \o BlockEvents(blocks_pass.runs),
     pass_events |->
         TagEvents(tag_pass.spans)
         \o SymbolEvents(symbol_x, x_position, keychord_indicator)
         \o BlockEvents(blocks_pass.runs)
         \o TitleEvents(focused_title, title_start, truncated.end_of_title,
                        x_position, end_of_blocks_x)]

\* what the visible window shows after the blit: the tag spans of the frame
RenderedFrame(layout) ==
    [drawn |-> TRUE,
     spans |-> [p \in 1..Len(layout.spans) |->
                  [tag |-> layout.spans[p].tag,
                   start |-> layout.spans[p].start,
                   end |-> layout.spans[p].end]]]

\* a draw without the dirty check
DrawSkipsNever == FALSE

\* if !self.needs_redraw { return Ok(()) }
DrawSkips == ~needs_redraw

\* the flag draw leaves behind after the blit
FlagAfterBlit == FALSE

\* draw on a clean Bar: it returns Ok(()) and reads none of its arguments
\* a draw that would cache the masks it is given before the dirty check
DrawSkipCachingMasks ==
    /\ ~aborted
    /\ DrawSkips
    /\ \E given \in DrawMasks :
          /\ last_current_tags' = given[1]
          /\ last_occupied_tags' = given[2]
    /\ last_call' = Call("draw", "ok", 0, 0, 0, 0, <<>>, <<>>)
    /\ UNCHANGED <<tags, tag_widths, needs_redraw, blocks, block_last_updates,
                   block_underlines, status_text, scheme_normal,
                   scheme_occupied, scheme_selected, scheme_urgent,
                   hide_vacant_tags>>
    /\ UNCHANGED <<now, aborted, frame, tab_vars, title_vars>>

DrawSkip ==
    /\ ~aborted
    /\ DrawSkips
    /\ last_call' = Call("draw", "ok", 0, 0, 0, 0, <<>>, <<>>)
    /\ UNCHANGED <<bar_fields, now, aborted, frame, tab_vars, title_vars>>

\* a draw that clears the flag before its connection calls
DrawErrorClearsFlag ==
    /\ ~aborted
    /\ ~DrawSkips
    /\ needs_redraw' = FALSE
    /\ last_call' = Call("draw", "err", 0, 0, 0, 0, <<>>, <<>>)
    /\ UNCHANGED <<tags, tag_widths, blocks, block_last_updates,
                   block_underlines, status_text, scheme_normal,
                   scheme_occupied, scheme_selected, scheme_urgent,
                   hide_vacant_tags, last_occupied_tags, last_current_tags>>
    /\ UNCHANGED <<now, aborted, frame, tab_vars, title_vars>>

\* draw on a dirty Bar whose change_gc or flush fails: it returns the error
DrawError ==
    /\ ~aborted
    /\ ~DrawSkips
    /\ last_call' = Call("draw", "err", 0, 0, 0, 0, <<>>, <<>>)
    /\ UNCHANGED <<bar_fields, now, aborted, frame, tab_vars, title_vars>>

\* what content() may return in the block loop of draw; the loop does not
\* run, and the results are not read, when no block is drawn
DrawFetchResults(draw_blocks) ==
    IF draw_blocks /\ status_text # <<>>
    THEN [1..Len(blocks) -> BOOLEAN]
    ELSE {[i \in 1..Len(blocks) |-> FALSE]}

\* draw on a dirty Bar whose connection calls succeed; fetch_ok[i] is what
\* block i's content() returns, and overflow_checks tells whether the build
\* panics on integer overflow
DrawRender(current_tags, occupied_tags, urgent_tags, draw_blocks, layout_symbol, keychord_indicator, focused_title, fetch_ok) ==
    /\ ~aborted
    /\ ~DrawSkips
    /\ \E layout \in {Layout(current_tags, occupied_tags, urgent_tags,
                             draw_blocks, layout_symbol, keychord_indicator,
                             focused_title, fetch_ok)} :
       \E overflow_checks \in (IF layout.underflow THEN BOOLEAN ELSE {FALSE}) :
          /\ last_occupied_tags' = occupied_tags
          /\ last_current_tags' = current_tags
          /\ IF layout.tag_panic \/ (layout.underflow /\ overflow_checks)
                \/ layout.title_panic
             THEN \E done \in
                      {<<ClearEvent>>
                       \o (IF layout.underflow /\ overflow_checks
                           THEN layout.underflow_events
                           ELSE IF layout.tag_panic THEN layout.tag_events
                           ELSE layout.pretitle_events)} :
                  /\ aborted' = TRUE
                  /\ last_call' =
                         WithMasks(
                           Call("draw", "panic", CountKind(done, "fill"), 0, 0,
                                IF layout.title_panic /\ ~layout.tag_panic
                                   /\ ~(layout.underflow /\ overflow_checks)
                                THEN layout.fetches ELSE 0,
                                <<>>, done),
                           current_tags, occupied_tags)
                  /\ UNCHANGED <<needs_redraw, frame>>
             ELSE /\ needs_redraw' = FlagAfterBlit
                  /\ frame' = RenderedFrame(layout)
                  /\ last_call' =
                         WithMasks(
                           Call("draw", "ok", layout.fills, layout.texts, 1,
                                layout.fetches, <<>>,
                                FrameEvents(layout.pass_events)),
                           current_tags, occupied_tags)
                  /\ UNCHANGED aborted
    /\ UNCHANGED <<tags, tag_widths, blocks, block_last_updates,
                   block_underlines, status_text, scheme_normal,
                   scheme_occupied, scheme_selected, scheme_urgent,
                   hide_vacant_tags>>
    /\ UNCHANGED <<now, tab_vars, title_vars>>

(***************************************************************************)
(* Bar::handle_click.                                                      *)
(***************************************************************************)

\* the walk over self.tag_widths, from tag_index on
RECURSIVE ClickWalk(_, _, _)
ClickWalk(click_x, tag_index, current_x_position) ==
    IF tag_index >= Len(tag_widths) THEN None
    ELSE
    LET tag_width == tag_widths[tag_index + 1]
        is_selected == Bit(last_current_tags, tag_index)
        is_occupied == Bit(last_occupied_tags, tag_index)
    IN
    IF hide_vacant_tags /\ ~is_occupied /\ ~is_selected
    THEN ClickWalk(click_x, tag_index + 1, current_x_position)
    ELSE IF /\ click_x >= current_x_position
            /\ click_x < current_x_position + AsI16(tag_width)
    THEN Some(tag_index)
    ELSE ClickWalk(click_x, tag_index + 1,
                   AsI16(current_x_position + AsI16(tag_width)))

handle_click(click_x) == ClickWalk(click_x, 0, 0)

\* the span [start, end) the walk tests click_x against, for every tag it
\* does not skip
RECURSIVE ClickWalkSpans(_, _)
ClickWalkSpans(tag_index, current_x_position) ==
    IF tag_index >= Len(tag_widths) THEN <<>>
    ELSE
    LET tag_width == tag_widths[tag_index + 1]
        is_selected == Bit(last_current_tags, tag_index)
        is_occupied == Bit(last_occupied_tags, tag_index)
    IN
    IF hide_vacant_tags /\ ~is_occupied /\ ~is_selected
    THEN ClickWalkSpans(tag_index + 1, current_x_position)
    ELSE <<[tag |-> tag_index,
            start |-> current_x_position,
            end |-> current_x_position + AsI16(tag_width)]>>
         \o ClickWalkSpans(tag_index + 1,
                           AsI16(current_x_position + AsI16(tag_width)))

HandleClick(click_x) ==
    /\ ~aborted
    /\ last_call' = Call("handle_click", handle_click(click_x), 0, 0, 0, 0,
                       <<>>, <<>>)
    /\ UNCHANGED <<bar_fields, now, aborted, frame, tab_vars, title_vars>>

(***************************************************************************)
(* The Bar as the host loop drives it.                                     *)
(***************************************************************************)

\* the TabBar and the title loop are not running
TabIdle ==
    /\ tb_width = 0
    /\ tb_x_offset = 0
    /\ tb_y_offset = 0
    /\ tb_surface_width = 0
    /\ tb_call = [op |-> "idle", result |-> None]

TitleIdle ==
    /\ t_pc = "idle"
    /\ t_title = <<>>
    /\ t_x_position = 0
    /\ t_end_of_blocks_x = 0
    /\ t_title_start = 0
    /\ t_title_width = 0
    /\ t_end_of_title = 0

\* the state Bar::new returns
BarNew(config) ==
    /\ now = 0
    /\ tags = config.tags
    /\ tag_widths = NewTagWidths(config)
    /\ needs_redraw = TRUE
    /\ blocks = ToBlocks(config)
    /\ block_underlines = BlockUnderlines(config)
    /\ block_last_updates = FreshTimestamps(config)
    /\ status_text = <<>>
    /\ scheme_normal = ColorScheme(config.theme, "normal")
    /\ scheme_occupied = ColorScheme(config.theme, "occupied")
    /\ scheme_selected = ColorScheme(config.theme, "selected")
    /\ scheme_urgent = ColorScheme(config.theme, "urgent")
    /\ hide_vacant_tags = config.hide_vacant_tags
    /\ last_occupied_tags = 0
    /\ last_current_tags = 0
    /\ aborted = FALSE
    /\ frame = NoFrame
    /\ last_call = Call("new", "ok", 0, 0, 0, 0, <<>>, <<>>)

\* a Bar built from one of configs, with the rest of the program idle
BarInit(configs) ==
    /\ \E config \in configs : BarNew(config)
    /\ TabIdle
    /\ TitleIdle

\* one call of the host loop on the Bar: configs are the configurations it
\* may load, draw_masks the <<current, occupied, urgent>> bitmask triples and
\* draw_extras the other arguments it may pass to draw, click_xs the pointer
\* positions it may report
BarNext(configs, draw_masks, draw_extras, click_xs) ==
    \/ \E config \in configs : UpdateFromConfig(config)
    \/ Invalidate
    \/ \E first_ok \in FirstLoopResults :
          \E rebuild_ok \in RebuildResults(first_ok) :
             UpdateBlocks(first_ok, rebuild_ok)
    \/ Tick
    \/ DrawSkip
    \/ DrawError
    \/ \E masks \in draw_masks, extra \in draw_extras,
          layout_symbol \in LayoutSymbols :
          \E fetch_ok \in DrawFetchResults(extra.draw_blocks) :
          DrawRender(masks[1], masks[2], masks[3], extra.draw_blocks,
                     layout_symbol, extra.keychord_indicator,
                     extra.focused_title, fetch_ok)
    \/ \E click_x \in click_xs : HandleClick(click_x)

(***************************************************************************)
(* Spec: the Bar with its status blocks and its dirty flag.  The tag list  *)
(* is fixed; the block lists, the clock and the fetch results vary.        *)
(***************************************************************************)
ExtraPlain ==
    [draw_blocks |-> FALSE, keychord_indicator |-> None,
     focused_title |-> None]

ExtraFull ==
    [draw_blocks |-> TRUE, keychord_indicator |-> Some(<<"i">>),
     focused_title |-> Some(<<"i", "i">>)]

ExtraLongTitle ==
    [draw_blocks |-> TRUE, keychord_indicator |-> None,
     focused_title |-> Some(<<"W", "W", "W">>)]

ExtraWideCharTitle ==
    [draw_blocks |-> FALSE, keychord_indicator |-> None,
     focused_title |-> Some(<<"W", "W", "e_acute">>)]

BlockSpecConfigs ==
    [tags : {<<LabelShort, LabelLong>>}, status_blocks : BlockLists,
     hide_vacant_tags : {FALSE}, theme : {"dark"}]

BlockSpecMasks == {<<1, 1, 0>>, <<2, 3, 1>>}

BlockSpecExtras == {ExtraPlain, ExtraFull}

BlockSpecClicks == {0, MaxClickX}

Init == BarInit(BlockSpecConfigs)

Next ==
    BarNext(BlockSpecConfigs, BlockSpecMasks, BlockSpecExtras, BlockSpecClicks)

Spec == Init /\ [][Next]_vars

(***************************************************************************)
(* SpecTags: the Bar with its tags.  There are no status blocks; the tag   *)
(* lists, the hide-vacant policy and the bitmasks vary.                    *)
(***************************************************************************)
TagSpecConfigs ==
    [tags : TagLists, status_blocks : {<<>>},
     hide_vacant_tags : BOOLEAN, theme : {"dark"}]

TagSpecExtras == {ExtraPlain, ExtraLongTitle, ExtraWideCharTitle}

InitTags == BarInit(TagSpecConfigs)

NextTags == BarNext(TagSpecConfigs, DrawMasks, TagSpecExtras, ClickXs)

SpecTags == InitTags /\ [][NextTags]_vars


(***************************************************************************)
(* SpecConfig: the Bar under reconfiguration.  The tag list, the block     *)
(* list, the hide-vacant policy and the theme of the configuration all     *)
(* vary; the arguments of draw are fixed.                                  *)
(***************************************************************************)
ConfigSpecConfigs ==
    [tags : {<<LabelShort>>, <<LabelLong, LabelShort>>},
     status_blocks : {b \in BlockLists :
                         Len(b) = 0 \/ (Len(b) = 1 /\ b[1].interval = 1)},
     hide_vacant_tags : BOOLEAN, theme : Themes]

InitConfig == BarInit(ConfigSpecConfigs)

NextConfig == BarNext(ConfigSpecConfigs, {<<1, 1, 0>>}, {ExtraFull}, {0})

SpecConfig == InitConfig /\ [][NextConfig]_vars

(***************************************************************************)
(* SpecPass: the tag pass of draw.  The tag list has MaxTags tags; the     *)
(* labels, the hide-vacant policy and the bitmasks vary.                   *)
(***************************************************************************)
PassSpecConfigs ==
    [tags : {t \in TagLists : Len(t) = MaxTags}, status_blocks : {<<>>},
     hide_vacant_tags : BOOLEAN, theme : {"dark"}]

InitPass == BarInit(PassSpecConfigs)

NextPass == BarNext(PassSpecConfigs, DrawMasks, {ExtraPlain}, {0})

SpecPass == InitPass /\ [][NextPass]_vars

(***************************************************************************)
(* SpecTitle: the focused-window title of Bar::draw, one loop iteration    *)
(* per step.  The title, the layout cursor x_position and end_of_blocks_x  *)
(* are drawn from bounded sets.                                            *)
(***************************************************************************)
Titles == UNION { [1..n -> Glyphs] : n \in 0..MaxTitleLen }

\* the layout cursor after the layout symbol and the keychord gap
TitleXPositions == {0, width - 40, width - 28, width - 18}

\* the left edge of the blocks, or the strip width when none is drawn
TitleBlockEnds == (width - 22)..width

BarIdle ==
    BarNew([tags |-> <<LabelShort>>, status_blocks |-> <<>>,
            hide_vacant_tags |-> FALSE, theme |-> "dark"])

InitTitle ==
    /\ BarIdle
    /\ TabIdle
    /\ t_pc = "start"
    /\ t_title \in Titles
    /\ t_x_position \in TitleXPositions
    /\ t_end_of_blocks_x \in TitleBlockEnds
    /\ t_title_start = 0
    /\ t_title_width = 0
    /\ t_end_of_title = 0

\* if let Some(title) = focused_title: the values set before the loop
TitleBegin ==
    /\ t_pc = "start"
    /\ t_pc' = "loop"
    /\ t_title_width' = AsI16(text_width(t_title))
    /\ t_end_of_title' = StrLen(t_title)
    /\ t_title_start' = TitleStart(t_x_position, t_end_of_blocks_x, t_title)
    /\ UNCHANGED <<t_title, t_x_position, t_end_of_blocks_x>>
    /\ UNCHANGED <<bar_vars, tab_vars>>

\* one iteration of the loop
TitleLoopStep ==
    /\ t_pc = "loop"
    /\ TitleLoopCond(t_title_start, t_title_width, t_end_of_blocks_x)
    /\ \E body \in {TitleLoopBody(t_title, t_end_of_title)} :
          IF body.panic
          THEN /\ t_pc' = "panic"
               /\ UNCHANGED <<t_end_of_title, t_title_width>>
          ELSE /\ t_pc' = "loop"
               /\ t_end_of_title' = body.end_of_title
               /\ t_title_width' = body.title_width
    /\ UNCHANGED <<t_title, t_x_position, t_end_of_blocks_x, t_title_start>>
    /\ UNCHANGED <<bar_vars, tab_vars>>

\* the loop ends and &title[..end_of_title] becomes a text run
TitleLoopExit ==
    /\ t_pc = "loop"
    /\ ~TitleLoopCond(t_title_start, t_title_width, t_end_of_blocks_x)
    /\ t_pc' = "done"
    /\ UNCHANGED <<t_title, t_x_position, t_end_of_blocks_x, t_title_start,
                   t_title_width, t_end_of_title>>
    /\ UNCHANGED <<bar_vars, tab_vars>>

NextTitle == TitleBegin \/ TitleLoopStep \/ TitleLoopExit

SpecTitle == InitTitle /\ [][NextTitle]_vars

(***************************************************************************)
(* SpecTab: the TabBar.                                                    *)
(***************************************************************************)

\* the windows of a tabbed container: handles 101, 102, ...; every second
\* window has an empty title
WindowLists ==
    { [p \in 1..n |->
          [window |-> 100 + p,
           title |-> IF p % 2 = 0 THEN <<>> ELSE <<"W">>]] :
        n \in 0..MaxWindows }

TabWidths == 0..MaxTabWidth

TabClickXs == -2..(MaxTabWidth + 2)

TabCall(op, result, panic, windows, click_x, events) ==
    [op |-> op, result |-> result, panic |-> panic, windows |-> Len(windows),
     click_x |-> click_x,
     fills |-> CountKind(events, "fill"),
     texts |-> CountKind(events, "text"),
     blits |-> CountKind(events, "blit"),
     events |-> events]

\* the state TabBar::new returns
TabNew(x, y, new_width) ==
    /\ tb_width = new_width
    /\ tb_x_offset = x
    /\ tb_y_offset = y
    /\ tb_surface_width = new_width
    /\ tb_call = TabCall("new", None, FALSE, <<>>, 0, <<>>)

InitTab ==
    /\ BarIdle
    /\ TitleIdle
    /\ \E new_width \in TabWidths : TabNew(0, 0, new_width)

\* self.width / windows.len() as u16
tab_width(windows) == tb_width \div AsU16(Len(windows))

\* a lookup that would round click_x to the nearest tab boundary
get_clicked_window_nearest(windows, click_x) ==
    IF Len(windows) = 0 THEN [panic |-> FALSE, value |-> None]
    ELSE IF tab_width(windows) = 0 THEN [panic |-> TRUE, value |-> None]
    ELSE LET tab_index == (AsU16(click_x) + tab_width(windows) \div 2)
                          \div tab_width(windows)
         IN IF tab_index < Len(windows)
            THEN [panic |-> FALSE,
                  value |-> Some(windows[tab_index + 1].window)]
            ELSE [panic |-> FALSE, value |-> None]

\* TabBar::get_clicked_window.  panic: the division by a tab_width of zero.
get_clicked_window(windows, click_x) ==
    IF Len(windows) = 0 THEN [panic |-> FALSE, value |-> None]
    ELSE IF tab_width(windows) = 0 THEN [panic |-> TRUE, value |-> None]
    ELSE LET tab_index == AsU16(click_x) \div tab_width(windows)
         IN IF tab_index < Len(windows)
            THEN [panic |-> FALSE,
                  value |-> Some(windows[tab_index + 1].window)]
            ELSE [panic |-> FALSE, value |-> None]

GetClickedWindow(windows, click_x) ==
    /\ ~tb_call.panic
    /\ \E got \in {get_clicked_window(windows, click_x)} :
          tb_call' = TabCall("get_clicked_window", got.value, got.panic,
                             windows, click_x, <<>>)
    /\ UNCHANGED <<tb_width, tb_x_offset, tb_y_offset, tb_surface_width>>
    /\ UNCHANGED <<bar_vars, title_vars>>

DigitGlyphs == <<"0", "1", "2", "3", "4", "5", "6", "7", "8", "9">>

\* the decimal digits of n, as format!("{}", n) writes them
RECURSIVE Decimal(_)
Decimal(n) ==
    IF n < 10 THEN <<DigitGlyphs[n + 1]>>
    ELSE Decimal(n \div 10) \o <<DigitGlyphs[(n % 10) + 1]>>

\* the label of the tab at index (from 0): the title of the window, or
\* format!("Window {}", index + 1) when the title is empty
display_title(title, index) ==
    IF title = <<>>
    THEN <<"W", "i", "n", "d", "o", "w", " ">> \o Decimal(index + 1)
    ELSE title

\* a.saturating_sub(b) in u16
SaturatingSub(a, b) == IF a >= b THEN a - b ELSE 0

\* the colors of the TabBar's own scheme_normal and scheme_selected
TabScheme(is_focused) ==
    ColorScheme("tab", IF is_focused THEN "selected" ELSE "normal")

\* the first draw_elements of TabBar::draw: the strip is cleared
TabClearEvent ==
    Event("fill", "clear", 0, 0, TabScheme(FALSE).background, <<>>)

\* what the loop of TabBar::draw does for the tab at position p: the label is
\* drawn at once and, for the focused window, the underline is filled
TabEvents(windows, focused_window, p) ==
    LET slot_width == tab_width(windows)
        x_position == AsI16((p - 1) * AsI16(slot_width))
        is_focused == Some(windows[p].window) = focused_window
        label == display_title(windows[p].title, p - 1)
        text_x == AsI16(x_position
                        + AsI16(SaturatingSub(slot_width, text_width(label))
                                \div 2))
    IN <<Event("text", "title", p - 1, text_x,
               TabScheme(is_focused).foreground,
               <<x_position, slot_width, label>>)>>
       \o (IF is_focused
           THEN <<Event("fill", "tab_underline", p - 1, x_position,
                        TabScheme(is_focused).underline,
                        <<x_position, slot_width>>)>>
           ELSE <<>>)

\* a draw that returns at once when there is no window to show
TabDrawEventsSkippingEmpty(windows, focused_window) ==
    IF windows = <<>> THEN <<>>
    ELSE <<TabClearEvent>>
         \o Join([p \in 1..Len(windows) |->
                    TabEvents(windows, focused_window, p)])
         \o <<BlitEvent>>

\* everything a TabBar::draw whose connection calls succeed does, in the
\* order of the code; copy_pixmap_to_window is the blit
TabDrawEvents(windows, focused_window) ==
    IF windows = <<>> THEN <<TabClearEvent, BlitEvent>>
    ELSE <<TabClearEvent>>
         \o Join([p \in 1..Len(windows) |->
                    TabEvents(windows, focused_window, p)])
         \o <<BlitEvent>>

\* TabBar::draw; connection_ok: change_gc and flush succeed
TabDraw(windows, focused_window, connection_ok) ==
    /\ ~tb_call.panic
    /\ IF ~connection_ok
       THEN tb_call' = TabCall("draw", "err", FALSE, windows, 0, <<>>)
       ELSE tb_call' = TabCall("draw", "ok", FALSE, windows, 0,
                               TabDrawEvents(windows, focused_window))
    /\ UNCHANGED <<tb_width, tb_x_offset, tb_y_offset, tb_surface_width>>
    /\ UNCHANGED <<bar_vars, title_vars>>

\* TabBar::reposition; failure names the first call that fails, if any
Reposition(x, y, new_width, failure) ==
    /\ ~tb_call.panic
    /\ tb_x_offset' = x
    /\ tb_y_offset' = y
    /\ tb_width' = new_width
    /\ tb_surface_width' =
           IF failure \in {"configure_window", "surface"}
           THEN tb_surface_width
           ELSE new_width
    /\ tb_call' = TabCall("reposition",
                          IF failure = "none" THEN "ok" ELSE "err",
                          FALSE, <<>>, 0, <<>>)
    /\ UNCHANGED <<bar_vars, title_vars>>

RepositionFailures == {"none", "configure_window", "surface", "flush"}

NextTab ==
    \/ \E windows \in WindowLists, click_x \in TabClickXs :
          GetClickedWindow(windows, click_x)
    \/ \E windows \in WindowLists, connection_ok \in BOOLEAN,
          focused_window \in {None, Some(101), Some(102)} :
          TabDraw(windows, focused_window, connection_ok)
    \/ \E x \in {0, 3}, new_width \in TabWidths,
          failure \in RepositionFailures :
          Reposition(x, 0, new_width, failure)

SpecTab == InitTab /\ [][NextTab]_vars

(***************************************************************************)
(* Claims about the Bar's tags (SpecTags).                                 *)
(***************************************************************************)

\* the tag whose span in the most recently rendered frame contains x
FrameTagAt(x) ==
    LET hit == {p \in 1..Len(frame.spans) :
                   frame.spans[p].start <= x /\ x < frame.spans[p].end}
    IN IF hit = {} THEN None
       ELSE Some(frame.spans[CHOOSE p \in hit : TRUE].tag)

\* C1: once a draw has rendered, handle_click(x) answers with the tag whose
\* span in the most recently rendered frame contains x, and with none when no
\* span of that frame contains x, whatever was supplied since that draw.
C1_ClickMatchesLastFrame ==
    (frame.drawn /\ ~aborted) =>
        \A x \in ClickXs : handle_click(x) = FrameTagAt(x)

\* C2: in every state of a Bar, tag_widths has one entry per current tag and
\* tag_widths[i] is text_width(tags[i]) + 2 * horizontal_padding.
C2_TagWidthsDerived ==
    ~aborted =>
        /\ Len(tag_widths) = Len(tags)
        /\ \A p \in 1..Len(tags) :
              tag_widths[p] = text_width(tags[p]) + 2 * horizontal_padding

\* C3: right after a rendering draw, the walk of handle_click over the cached
\* bitmasks visits the tags the draw laid out and gives each the same span.
C3_DrawAndClickWalksAgree ==
    (last_call.op = "draw" /\ last_call.result = "ok" /\ last_call.blits = 1)
        => frame.spans = ClickWalkSpans(0, 0)

\* the tags a draw with these bitmasks does not hide
VisibleTags(current_tags, occupied_tags) ==
    {t \in 0..(Len(tags) - 1) :
        ~TagHidden(Bit(occupied_tags, t), Bit(current_tags, t))}

\* C12: the draw that follows update_from_config does not abort, lays out
\* every tag of the new list that its bitmasks do not hide, and leaves
\* handle_click ranging over exactly those tags.
C12_DrawAfterReconfigure ==
    [][(/\ last_call.op = "update_from_config"
        /\ last_call'.op = "draw"
        /\ last_call'.result # "err") =>
          LET visible == VisibleTags(last_current_tags', last_occupied_tags')
              spans == frame'.spans
              ranges == ClickWalkSpans(0, 0)'
          IN /\ last_call'.result = "ok"
             /\ {spans[p].tag : p \in 1..Len(spans)} = visible
             /\ {ranges[p].tag : p \in 1..Len(ranges)} = visible
      ]_vars

(***************************************************************************)
(* Claims about the tag pass of draw (SpecPass).                           *)
(***************************************************************************)

\* the scheme the fixed priority gives a tag with these flags
\* <<selected, urgent, occupied>>
PriorityScheme(flags) ==
    CASE flags[1] -> scheme_selected
      [] ~flags[1] /\ flags[2] -> scheme_urgent
      [] ~flags[1] /\ ~flags[2] /\ flags[3] -> scheme_occupied
      [] OTHER -> scheme_normal

\* the underline fills of a draw under the tag with this index
UnderlinesOf(events, index) ==
    {p \in 1..Len(events) :
        /\ events[p].kind = "fill"
        /\ events[p].what = "tag_underline"
        /\ events[p].index = index}

\* C14: in a draw that renders, the label of each visible tag is drawn in the
\* foreground of the scheme chosen by selected > urgent > occupied > normal,
\* and the tag gets one underline, in that scheme's underline color, when it
\* is selected or urgent and none otherwise.
C14_SchemePriorityAndUnderline ==
    (last_call.op = "draw" /\ last_call.result = "ok" /\ last_call.blits = 1) =>
        LET events == last_call.events
        IN \A p \in 1..Len(events) :
              (events[p].kind = "text" /\ events[p].what = "tag") =>
                 LET scheme == PriorityScheme(events[p].flags)
                     underlines == UnderlinesOf(events, events[p].index)
                 IN /\ events[p].color = scheme.foreground
                    /\ IF events[p].flags[1] \/ events[p].flags[2]
                       THEN /\ Cardinality(underlines) = 1
                            /\ \A q \in underlines :
                                  events[q].color = scheme.underline
                       ELSE underlines = {}

\* a draw has rendered a tag that is selected and urgent, under which the
\* underline has the selected scheme's color, next to an occupied tag
C14_Witness ==
    /\ last_call.op = "draw"
    /\ last_call.result = "ok"
    /\ last_call.blits = 1
    /\ \E p, q \in 1..Len(last_call.events) :
          /\ last_call.events[p].kind = "fill"
          /\ last_call.events[p].what = "tag_underline"
          /\ last_call.events[p].flags[1]
          /\ last_call.events[p].flags[2]
          /\ last_call.events[p].color = scheme_selected.underline
          /\ last_call.events[q].kind = "text"
          /\ last_call.events[q].what = "tag"
          /\ last_call.events[q].flags = <<FALSE, FALSE, TRUE>>
          /\ last_call.events[q].color = scheme_occupied.foreground

\* tag_widths[1] + ... + tag_widths[n]
RECURSIVE SumOfWidths(_)
SumOfWidths(n) == IF n = 0 THEN 0 ELSE tag_widths[n] + SumOfWidths(n - 1)

\* C15: with hide-vacant disabled, a draw that renders lays out every tag,
\* and the cursor it has reached after the tag pass, just before the gap and
\* the layout symbol, is the sum of the widths of all tags.
C15_TagPassEndsAtSumOfWidths ==
    (/\ last_call.op = "draw" /\ last_call.result = "ok" /\ last_call.blits = 1
     /\ ~hide_vacant_tags) =>
        LET events == last_call.events
        IN /\ Len(frame.spans) = Len(tags)
           /\ \A p \in 1..Len(events) :
                 (events[p].kind = "layout" /\ events[p].what = "symbol") =>
                    events[p].x - LayoutGap = SumOfWidths(Len(tags))

\* with hide-vacant disabled, a draw has laid out two tags, one of them
\* vacant and not selected, and the layout symbol after them
C15_Witness ==
    /\ last_call.op = "draw"
    /\ last_call.result = "ok"
    /\ last_call.blits = 1
    /\ ~hide_vacant_tags
    /\ Len(tags) = MaxTags
    /\ last_occupied_tags = 0
    /\ \E p \in 1..Len(last_call.events) :
          /\ last_call.events[p].kind = "layout"
          /\ last_call.events[p].what = "symbol"
          /\ last_call.events[p].x = SumOfWidths(MaxTags) + LayoutGap

(***************************************************************************)
(* Claims about the dirty flag and the status blocks (Spec).               *)
(***************************************************************************)

\* block i reached its interval before this step and its content() succeeds
\* in the call this step makes
ReachedAndFetched(i) ==
    /\ now - block_last_updates[i] >= blocks[i].interval
    /\ last_call'.first_ok[i]

\* C7: an update_blocks call leaves the dirty flag set if and only if it was
\* set before the call or some block had reached its interval and its content
\* fetch succeeded in the call.
C7_UpdateBlocksDirtyIff ==
    [][last_call'.op = "update_blocks" =>
          (needs_redraw' <=>
              (needs_redraw \/ \E i \in 1..Len(blocks) : ReachedAndFetched(i)))
      ]_vars

\* an update_blocks call in which a block changed has just set the flag
C7_Witness ==
    /\ last_call.op = "update_blocks"
    /\ last_call.fetches > Len(blocks)
    /\ \E i \in 1..Len(blocks) : last_call.first_ok[i] /\ block_last_updates[i] = now
    /\ needs_redraw

\* whether the rebuild loop of the call this step makes fetched block i
\* successfully
RebuildSucceeded(i) ==
    \E p \in 1..Len(last_call'.events) :
        /\ last_call'.events[p].what = "rebuild"
        /\ last_call'.events[p].index = i
        /\ last_call'.events[p].flags[1]

\* the contents of the blocks from i on that the rebuild fetched, in
\* configured order
RECURSIVE ContentsFrom(_)
ContentsFrom(i) ==
    IF i > Len(blocks) THEN <<>>
    ELSE (IF RebuildSucceeded(i) THEN blocks[i].text ELSE <<>>)
         \o ContentsFrom(i + 1)

\* C25: an update_blocks call that finds a changed block sets the status
\* text to the concatenation, in configured order, of the content of every
\* block whose fetch succeeds in the rebuild, due or not, a failing block
\* contributing nothing, and sets the dirty flag; the text may be empty.
C25_StatusTextJoinsAllBlocks ==
    [][(/\ last_call'.op = "update_blocks"
        /\ \E i \in 1..Len(blocks) : ReachedAndFetched(i)) =>
          /\ status_text' = ContentsFrom(1)
          /\ needs_redraw'
      ]_vars

\* an update_blocks call found a changed block among two and every fetch of
\* its rebuild failed: the status text is empty and the Bar is dirty
C25_Witness ==
    /\ last_call.op = "update_blocks"
    /\ Len(blocks) = 2
    /\ \E i \in 1..Len(blocks) :
          last_call.first_ok[i] /\ block_last_updates[i] = now
    /\ \A p \in 1..Len(last_call.events) :
          last_call.events[p].what = "rebuild" => ~last_call.events[p].flags[1]
    /\ \E p \in 1..Len(last_call.events) : last_call.events[p].what = "rebuild"
    /\ status_text = <<>>
    /\ needs_redraw

\* an update_blocks call rebuilt the status text from both blocks although
\* only one of them had reached its interval
C25_NotDueBlockContributes ==
    /\ last_call.op = "update_blocks"
    /\ Len(blocks) = 2
    /\ last_call.fetches = 3
    /\ status_text = blocks[1].text \o blocks[2].text

NoPixelWork(call) ==
    call.fills = 0 /\ call.texts = 0 /\ call.blits = 0 /\ call.fetches = 0

\* C8: a draw on a Bar whose dirty flag is clear returns success, does no
\* pixel work, fetches no block content and changes no Bar field; so the draw
\* that follows a successful draw does no pixel work.
C8_CleanDrawIsNoOp ==
    [][/\ (last_call'.op = "draw" /\ ~needs_redraw) =>
             /\ last_call'.result = "ok"
             /\ NoPixelWork(last_call')
             /\ UNCHANGED <<bar_fields, frame>>
       /\ (last_call.op = "draw" /\ last_call.result = "ok"
           /\ last_call'.op = "draw") => NoPixelWork(last_call')
      ]_vars

\* a draw has been skipped on a Bar that had rendered a frame before
C8_Witness ==
    /\ last_call.op = "draw"
    /\ last_call.result = "ok"
    /\ NoPixelWork(last_call)
    /\ frame.drawn
    /\ ~needs_redraw

\* C9: the dirty flag is set after construction, invalidate,
\* update_from_config and an update_blocks call in which a block changed; it
\* goes from set to clear only in a draw that returns success after the whole
\* pass, blit included; a draw that returns an error leaves it set.
C9_DirtyFlagLifecycle ==
    /\ needs_redraw = TRUE
    /\ [][/\ last_call'.op \in {"invalidate", "update_from_config"}
                => needs_redraw'
          /\ (/\ last_call'.op = "update_blocks"
              /\ \/ status_text' # status_text
                 \/ block_last_updates' # block_last_updates)
                => needs_redraw'
          /\ (needs_redraw /\ ~needs_redraw') =>
                /\ last_call'.op = "draw"
                /\ last_call'.result = "ok"
                /\ last_call'.fills >= 1
                /\ last_call'.texts >= 1
                /\ last_call'.blits = 1
          /\ (last_call'.op = "draw" /\ last_call'.result = "err") =>
                (needs_redraw /\ needs_redraw')
         ]_vars

\* a draw has failed on a dirty Bar, which is still dirty
C9_Witness ==
    /\ last_call.op = "draw"
    /\ last_call.result = "err"
    /\ needs_redraw
    /\ frame.drawn

\* C10: the status text and the timestamps change only in update_from_config
\* and in an update_blocks call in which some block reached its interval and
\* fetched successfully; in such a call a block's timestamp changes only if
\* that block itself did; draw, invalidate and handle_click change neither.
C10_StatusAndTimestampsFrame ==
    [][/\ (status_text' # status_text
           \/ block_last_updates' # block_last_updates) =>
             \/ last_call'.op = "update_from_config"
             \/ /\ last_call'.op = "update_blocks"
                /\ \E i \in 1..Len(blocks) : ReachedAndFetched(i)
       /\ last_call'.op = "update_blocks" =>
             \A i \in 1..Len(blocks) :
                block_last_updates'[i] # block_last_updates[i]
                    => ReachedAndFetched(i)
       /\ last_call'.op \in {"draw", "invalidate", "handle_click"} =>
             UNCHANGED <<status_text, block_last_updates>>
      ]_vars

\* an update_blocks call changed one block and left alone another one, which
\* had reached its interval but failed to fetch
C10_Witness ==
    /\ last_call.op = "update_blocks"
    /\ last_call.fetches > Len(blocks)
    /\ \E i, j \in 1..Len(blocks) :
          /\ block_last_updates[i] = now
          /\ last_call.first_ok[i]
          /\ block_last_updates[j] < now
          /\ now - block_last_updates[j] >= blocks[j].interval
          /\ ~last_call.first_ok[j]


\* the positions in events of the requests of one kind
EventsOfKind(events, kind) ==
    {p \in 1..Len(events) : events[p].kind = kind}

\* C18: a block whose content fetch fails during an update_blocks call is
\* handled silently: the call reports no error, and the content operation of
\* the failing block is not invoked again within the same call.
C18_FailedFetchNotRepeated ==
    last_call.op = "update_blocks" =>
        /\ last_call.result = "ok"
        /\ \A p, q \in EventsOfKind(last_call.events, "fetch") :
              (/\ p < q
               /\ last_call.events[p].index = last_call.events[q].index)
                 => last_call.events[p].flags[1]

(***************************************************************************)
(* Claims about the order of the requests of one draw (Spec).              *)
(***************************************************************************)

\* C13: a draw that renders writes the visible window exactly once, by one
\* blit that comes after every fill and every text run of the frame; a draw
\* that is skipped, fails or aborts does not write the window, which keeps
\* the frame it showed.
C13_SingleBlitAfterAllWrites ==
    [][last_call'.op = "draw" =>
          LET events == last_call'.events
          IN IF needs_redraw /\ last_call'.result = "ok"
             THEN /\ EventsOfKind(events, "blit") = {Len(events)}
                  /\ last_call'.blits = 1
                  /\ EventsOfKind(events, "fill") # {}
                  /\ EventsOfKind(events, "text") # {}
                  /\ Cardinality(EventsOfKind(events, "fill")) = last_call'.fills
                  /\ Cardinality(EventsOfKind(events, "text")) = last_call'.texts
                  /\ frame'.drawn
             ELSE /\ EventsOfKind(events, "blit") = {}
                  /\ last_call'.blits = 0
                  /\ frame' = frame
      ]_vars

\* a draw has rendered tags, an underlined tag, the layout symbol, the
\* keychord indicator, an underlined block and the title, and has blitted
C13_Witness ==
    /\ last_call.op = "draw"
    /\ last_call.result = "ok"
    /\ last_call.blits = 1
    /\ \A what \in {"tag", "symbol", "keychord", "block", "title"} :
          \E p \in EventsOfKind(last_call.events, "text") :
             last_call.events[p].what = what
    /\ \A what \in {"clear", "tag_underline", "block_underline"} :
          \E p \in EventsOfKind(last_call.events, "fill") :
             last_call.events[p].what = what
    /\ last_call.events[Len(last_call.events)].kind = "blit"

\* C19, as stated: within a draw that renders, nothing is written to the
\* offscreen surface, no fill and no text, until the layout of tags, layout
\* symbol, keychord indicator, blocks and title is fully computed.
C19_NoWriteBeforeLayoutEnds ==
    (last_call.op = "draw" /\ last_call.result = "ok" /\ last_call.blits = 1) =>
        \A p \in EventsOfKind(last_call.events, "fill")
                  \cup EventsOfKind(last_call.events, "text") :
           \A q \in EventsOfKind(last_call.events, "layout") : q < p

\* C19, amended: within a draw that renders, no text run is written to the
\* offscreen surface until the layout of tags, layout symbol, keychord
\* indicator, blocks and title is fully computed, and every run the layout
\* positioned is then written, in the order of the layout; the clearing fill
\* comes before the layout and the underline fills come during it.
C19_NoTextBeforeLayoutEnds ==
    (last_call.op = "draw" /\ last_call.result = "ok" /\ last_call.blits = 1) =>
        LET events == last_call.events
            layouts == SelectSeq(events, IsLayout)
            texts == SelectSeq(events, LAMBDA e : e.kind = "text")
        IN /\ \A p \in EventsOfKind(events, "text") :
                 \A q \in EventsOfKind(events, "layout") : q < p
           /\ Len(texts) = Len(layouts)
           /\ \A p \in 1..Len(texts) :
                 /\ texts[p].what = layouts[p].what
                 /\ texts[p].index = layouts[p].index
                 /\ texts[p].x = layouts[p].x
           /\ events[1].kind = "fill"
           /\ events[1].what = "clear"
           /\ \A p \in EventsOfKind(events, "fill") :
                 \A q \in EventsOfKind(events, "text") : p < q

\* a draw has rendered in which an underline was filled before the layout
\* symbol, a block and the title were positioned, and the text runs followed
C19_Witness ==
    /\ last_call.op = "draw"
    /\ last_call.result = "ok"
    /\ last_call.blits = 1
    /\ \E p \in EventsOfKind(last_call.events, "fill") :
          /\ last_call.events[p].what = "tag_underline"
          /\ \A what \in {"symbol", "block", "title"} :
                \E q \in EventsOfKind(last_call.events, "layout") :
                   /\ p < q
                   /\ last_call.events[q].what = what
    /\ last_call.texts >= 4

(***************************************************************************)
(* Claims about reconfiguration (SpecConfig).                              *)
(***************************************************************************)

\* C11: when update_from_config(c) returns, the Bar holds c's tags, c's four
\* color schemes, c's hide-vacant policy and one block, one underline flag
\* and one timestamp per status block of c, every timestamp being the time of
\* the call; the status text is empty and the dirty flag is set.  The call is
\* one step: no other operation sees a state between the two.
C11_UpdateFromConfigReplacesAll ==
    [][last_call'.op = "update_from_config" =>
          LET c == last_call'.events[1].flags[1]
              n == Len(c.status_blocks)
          IN /\ tags' = c.tags
             /\ scheme_normal' = ColorScheme(c.theme, "normal")
             /\ scheme_occupied' = ColorScheme(c.theme, "occupied")
             /\ scheme_selected' = ColorScheme(c.theme, "selected")
             /\ scheme_urgent' = ColorScheme(c.theme, "urgent")
             /\ hide_vacant_tags' = c.hide_vacant_tags
             /\ Len(blocks') = n
             /\ Len(block_underlines') = n
             /\ Len(block_last_updates') = n
             /\ \A p \in 1..n :
                   /\ blocks'[p].interval = c.status_blocks[p].interval
                   /\ blocks'[p].text = c.status_blocks[p].text
                   /\ block_underlines'[p] = c.status_blocks[p].underline
                   /\ block_last_updates'[p] = now
             /\ status_text' = <<>>
             /\ needs_redraw'
      ]_vars

\* a Bar that had rendered a frame with status text has been given, at a
\* later time, a configuration with another theme and a status block
C11_Witness ==
    /\ last_call.op = "update_from_config"
    /\ last_call.events[1].flags[1].theme = "light"
    /\ scheme_selected = ColorScheme("light", "selected")
    /\ Len(blocks) = 1
    /\ block_last_updates = <<now>>
    /\ now > 0
    /\ frame.drawn
    /\ status_text = <<>>
    /\ needs_redraw

(***************************************************************************)
(* Claims about the cached tag masks (Spec).                               *)
(***************************************************************************)

\* the step is a draw on a dirty Bar whose connection calls succeed
DrawPastConnectionCalls ==
    /\ last_call'.op = "draw"
    /\ needs_redraw
    /\ last_call'.result # "err"

\* C26: last_current_tags and last_occupied_tags are written only by a draw
\* that passes the dirty check and its first connection calls, and then hold
\* the current and occupied masks given to that call; every other step (a
\* skipped draw, a draw that returns an error, invalidate, update_blocks,
\* update_from_config, handle_click) leaves both unchanged.
C26_MasksCachedOnlyByDraw ==
    [][IF DrawPastConnectionCalls
       THEN /\ last_call'.masks # <<>>
            /\ last_current_tags' = last_call'.masks[1]
            /\ last_occupied_tags' = last_call'.masks[2]
       ELSE UNCHANGED <<last_current_tags, last_occupied_tags>>
      ]_vars

\* a draw has replaced the cached masks of an earlier frame by the ones it
\* was given
C26_Witness ==
    /\ last_call.op = "draw"
    /\ last_call.result = "ok"
    /\ last_call.masks = <<2, 3>>
    /\ last_current_tags = 2
    /\ last_occupied_tags = 3
    /\ frame.drawn

(***************************************************************************)
(* Claims about where a draw places the keychord indicator, the blocks and *)
(* the title (Spec).                                                       *)
(***************************************************************************)

\* the positions of the layout events of one kind in the last call
Placed(what) ==
    {p \in 1..Len(last_call.events) :
        /\ last_call.events[p].kind = "layout"
        /\ last_call.events[p].what = what}

DrawCompleted == last_call.op = "draw" /\ last_call.result = "ok"

\* C22: when a keychord indicator is supplied, the cursor after the layout
\* symbol and the indicator has advanced by the indicator's measured width,
\* so the end-of-layout position the title is placed from is the
\* indicator's right edge plus the gap, and never left of that edge.
C22_CursorPassesKeychord ==
    DrawCompleted =>
        \A k \in Placed("keychord"), t \in Placed("title") :
            LET indicator == last_call.events[k]
                right_edge == indicator.x + text_width(indicator.flags)
                end_of_layout_x == last_call.events[t].flags[1]
            IN /\ end_of_layout_x = right_edge + TitleGap
               /\ end_of_layout_x >= right_edge

\* C23: a title that is supplied and fits starts at midpoint - title_width/2,
\* where midpoint lies halfway between end-of-layout and end-of-blocks; only
\* when that start lies left of end-of-layout does the title start right
\* after the layout region instead.
C23_TitleCentredBetweenBoundaries ==
    DrawCompleted =>
        \A t \in Placed("title") :
            LET placed == last_call.events[t]
                end_of_layout_x == placed.flags[1]
                end_of_blocks_x == placed.flags[2]
                title == placed.flags[3]
                midpoint == end_of_layout_x
                            + TruncDiv(end_of_blocks_x - end_of_layout_x, 2)
                centred == midpoint - TruncDiv(text_width(title), 2)
            IN placed.index = StrLen(title) =>
                 IF centred < end_of_layout_x
                 THEN /\ placed.x >= end_of_layout_x
                      /\ placed.x <= end_of_layout_x + TitleJustifyGap
                 ELSE placed.x = centred

\* the right edge of the text of the block placed by event p
BlockRightEdge(p) ==
    last_call.events[p].x
    + text_width(blocks[last_call.events[p].index].text)

\* C24: drawn blocks are placed right to left in reverse configured order
\* from the strip's right edge, each block's text ending the fixed right
\* margin before what lies to its right (the edge, or the block placed
\* before it), and the boundary given to the title is the leftmost x of the
\* leftmost block; when blocks are not drawn the boundary is the strip width.
C24_BlocksRightToLeftWithMargin ==
    DrawCompleted =>
        /\ \A p \in Placed("block") :
              LET earlier == {q \in Placed("block") : q < p}
                  right_neighbour ==
                      CHOOSE q \in earlier : \A o \in earlier : o <= q
              IN IF earlier = {}
                 THEN BlockRightEdge(p) + BlocksPadding = width
                 ELSE /\ last_call.events[p].index
                           < last_call.events[right_neighbour].index
                      /\ BlockRightEdge(p) + BlocksPadding
                           = last_call.events[right_neighbour].x
        /\ \A t \in Placed("title") :
              LET end_of_blocks_x == last_call.events[t].flags[2]
              IN /\ Placed("block") # {} =>
                       /\ \E p \in Placed("block") :
                             last_call.events[p].x = end_of_blocks_x
                       /\ \A p \in Placed("block") :
                             last_call.events[p].x >= end_of_blocks_x
                 /\ last_call.fetches = 0 => end_of_blocks_x = width

(***************************************************************************)
(* Claims about the title of the focused window (SpecTitle).               *)
(***************************************************************************)

\* the width available to the title: end of blocks minus title start
TitleAvailable == t_end_of_blocks_x - t_title_start

\* C4: when the width available to the title is >= 0, the truncation loop
\* ends without aborting, with the full title if it fits and otherwise with a
\* strict prefix whose measured width is at most the available width.
C4_TruncationFitsOrPrefix ==
    (t_pc \in {"loop", "done", "panic"} /\ TitleAvailable >= 0) =>
        /\ t_pc # "panic"
        /\ t_pc = "done" =>
              /\ IsCharBoundary(t_title, t_end_of_title)
              /\ text_width(SliceTo(t_title, t_end_of_title)) <= TitleAvailable
              /\ IF text_width(t_title) <= TitleAvailable
                 THEN t_end_of_title = StrLen(t_title)
                 ELSE t_end_of_title < StrLen(t_title)

\* C20: for every title and every layout, also when the title starts to the
\* right of the end of the blocks, the truncation loop keeps the prefix
\* length between 0 and the length of the title and does not abort when the
\* prefix is empty: the length never goes below zero.
C20_PrefixLengthNeverBelowZero ==
    (t_pc \in {"loop", "done", "panic"}) =>
        /\ t_end_of_title \in 0..StrLen(t_title)
        /\ t_end_of_title = 0 => t_pc # "panic"

\* C21: each iteration of the truncation loop removes exactly one trailing
\* character of the title, so that the text measured and drawn stays a
\* prefix made of whole characters, also when a character takes more than
\* one byte.
C21_LoopDropsWholeCharacters ==
    [][(/\ t_pc = "loop"
        /\ t_pc' \in {"loop", "panic"}
        /\ t_end_of_title > 0) =>
          /\ t_pc' = "loop"
          /\ IsCharBoundary(t_title, t_end_of_title')
          /\ Len(SliceTo(t_title, t_end_of_title'))
                = Len(SliceTo(t_title, t_end_of_title)) - 1
      ]_vars

(***************************************************************************)
(* Claims about the TabBar (SpecTab).                                      *)
(***************************************************************************)

\* C16: whenever draw or get_clicked_window can be called, also after a
\* reposition that returned an error, the recorded width of the TabBar is the
\* width of its Drawing Surface.
C16_WidthMatchesSurface ==
    ~tb_call.panic => tb_width = tb_surface_width

\* C17: every TabBar draw that returns success has first cleared the
\* offscreen surface to the normal background and has then blitted it to the
\* window, once and as its last request, whatever the window list.
C17_TabDrawClearsThenBlits ==
    (tb_call.op = "draw" /\ tb_call.result = "ok") =>
        LET events == tb_call.events
        IN /\ Len(events) >= 2
           /\ events[1].kind = "fill"
           /\ events[1].what = "clear"
           /\ events[1].color = ColorScheme("tab", "normal").background
           /\ EventsOfKind(events, "blit") = {Len(events)}
           /\ tb_call.blits = 1
           /\ tb_call.texts = tb_call.windows

\* a draw of the empty window list has cleared and blitted
C17_Witness ==
    /\ tb_call.op = "draw"
    /\ tb_call.result = "ok"
    /\ tb_call.windows = 0
    /\ tb_call.fills = 1
    /\ tb_call.blits = 1

\* C5: with N >= 1 windows, get_clicked_window at x = width - 1 returns the
\* last window, whether or not the width is a multiple of N.
C5_LastPixelHitsLastTab ==
    (/\ tb_call.op = "get_clicked_window"
     /\ tb_call.windows >= 1
     /\ tb_width >= 1
     /\ tb_call.click_x = tb_width - 1) =>
        /\ ~tb_call.panic
        /\ tb_call.result = Some(100 + tb_call.windows)

\* C6: get_clicked_window returns none, without aborting, when the window
\* list is empty and, for every width and N >= 1 windows, when x >= width or
\* x < 0.
C6_OutsideClickIsNone ==
    (/\ tb_call.op = "get_clicked_window"
     /\ \/ tb_call.windows = 0
        \/ tb_call.click_x >= tb_width
        \/ tb_call.click_x < 0) =>
        /\ ~tb_call.panic
        /\ tb_call.result = None

\* the window list of the last call (there is one list of every length)
LastWindows == CHOOSE windows \in WindowLists : Len(windows) = tb_call.windows

\* the labels the last call drew, one for every tab
DrawnTabs ==
    {p \in 1..Len(tb_call.events) : tb_call.events[p].what = "title"}

\* C27: for a TabBar of width W and a list of N >= 1 windows with W >= N, the
\* lookup agrees with draw: the slot draw gives to the window at index i is
\* [i * tab_width, (i + 1) * tab_width), get_clicked_window returns that
\* window for every x of the slot, and the slots of two windows share no x.
C27_ClickAgreesWithDrawnSlots ==
    (/\ tb_call.op = "draw"
     /\ tb_call.result = "ok"
     /\ tb_call.windows >= 1
     /\ tb_width >= tb_call.windows) =>
        /\ \A p \in DrawnTabs :
              LET tab == tb_call.events[p]
                  start == tab.flags[1]
                  slot_width == tab.flags[2]
              IN /\ start = tab.index * (tb_width \div tb_call.windows)
                 /\ slot_width = tb_width \div tb_call.windows
                 /\ \A x \in start..(start + slot_width - 1) :
                       get_clicked_window(LastWindows, x)
                         = [panic |-> FALSE,
                            value |-> Some(LastWindows[tab.index + 1].window)]
        /\ \A p, q \in DrawnTabs :
              tb_call.events[p].index < tb_call.events[q].index =>
                  tb_call.events[p].flags[1] + tb_call.events[p].flags[2]
                      <= tb_call.events[q].flags[1]

\* three windows have been drawn on a strip whose width is not a multiple
\* of three
C27_Witness ==
    /\ tb_call.op = "draw"
    /\ tb_call.result = "ok"
    /\ tb_call.windows = 3
    /\ tb_width = 7
    /\ Cardinality(DrawnTabs) = 3

====
